---- MODULE Spec2Model ----
(***************************************************************************)
(* The capture-and-sort engine of grex_packet_capture.                     *)
(*                                                                         *)
(* Two assemblers live in the repository and both are modelled:            *)
(*   impl = "main"    : the block loop of main() in src/src/main.rs, with  *)
(*                      the ReorderBuffer backlog and the ThingBuf ring;   *)
(*   impl = "capture" : Capture::capture_sorted_block in                   *)
(*                      src/src/capture.rs, with the HashMap backlog,      *)
(*                      called once per block by the same driver loop.     *)
(* One step of the model is one recv of the capture loop, one finalize of  *)
(* a block, one push_ref, one pop of the sink thread, or the join.         *)
(***************************************************************************)
EXTENDS Integers, Sequences, FiniteSets, TLC

\* ---------------------------------------------------------------- sizes
\* The program's sizes, scaled down so that every case is reached.
BLOCK_PAYLOADS == 2
BACKLOG_BUFFER_PAYLOADS == 2
RING_CAPACITY == 2
BLOCKS_TO_SORT == 3
\* The largest count the sender puts on the wire.
MaxCount == 5
\* The number of wrong-size datagrams the network delivers in one run.
MaxShort == 1
\* type Count = u64: the width in bits of count arithmetic, scaled down from
\* 64 so that counts at the top of the range are reached.
COUNT_WIDTH == 5

\* Program constants kept as they are.
UDP_PAYLOAD == 8200
COUNT_BYTES == 8
BYTE_RADIX == 256

VARIABLES
    impl,            \* which assembler runs: "main" or "capture"
    pc,              \* capture thread: reserve, capture, finalize, join, done, failed
    first_payload,   \* main.rs first_payload / capture.rs first_packet
    oldest_count,    \* block_base
    drops,
    processed,
    to_fill,         \* main.rs: [0..B-1 -> BOOLEAN]; capture.rs: the usize bitmap
    rb,              \* main.rs ReorderBuffer
    backlog,         \* capture.rs HashMap<Count, PayloadBytes>
    slot,            \* the block under assembly (the Ref from push_ref)
    iter,            \* iterations of the capture loop done for this block
    blocks,          \* blocks completed by the capture thread
    ring,            \* ThingBuf: blocks released by the producer, not yet popped
    sunk,            \* the sink thread's count
    last_pop,        \* history: block_base of the block popped last, -1 before
    acct,            \* history: counters of what the assembler did
    recording,       \* history switch: TRUE when stream and emitted are kept
    sender_base,     \* environment: the count the sender's counter starts from
    overflow_checks, \* build: TRUE with overflow checks (debug), FALSE without
    stream,          \* history: the datagrams consumed, in order of arrival
    emitted          \* history: every block released, in order

vars == <<impl, pc, first_payload, oldest_count, drops, processed, to_fill, rb,
          backlog, slot, iter, blocks, ring, sunk, last_pop, acct, recording,
          sender_base, overflow_checks, stream, emitted>>

Slots == 0 .. (BLOCK_PAYLOADS - 1)
Counts == 0 .. MaxCount
\* The sizes recv reports: a whole datagram, or a truncated one.
Sizes == {UDP_PAYLOAD, UDP_PAYLOAD - COUNT_BYTES}

\* if size == UDP_PAYLOAD / if n != self.buf.0.len()
SizeOk(n) == n = UDP_PAYLOAD

\* ------------------------------------------------------------- payloads
RECURSIVE to_be_bytes(_, _)
\* The sender's header: c as n big-endian bytes.
to_be_bytes(c, n) ==
    IF n = 0 THEN <<>>
    ELSE Append(to_be_bytes(c \div BYTE_RADIX, n - 1), c % BYTE_RADIX)

RECURSIVE BeValue(_, _)
\* The value of the first n bytes of bs, most significant byte first.
BeValue(bs, n) ==
    IF n = 0 THEN 0
    ELSE BeValue(bs, n - 1) * BYTE_RADIX + bs[n]

\* u64::from_be_bytes
from_be_bytes(bs) == BeValue(bs, Len(bs))

\* Payload::count : the first eight bytes, big-endian.
count(pl) == from_be_bytes(SubSeq(pl.hdr, 1, COUNT_BYTES))

\* Payload::default : every byte zero.
PayloadDefault == [hdr |-> [k \in 1 .. COUNT_BYTES |-> 0], body |-> "zero"]

\* A datagram of the right size carrying count c, as the sender emits it.
Wire(c) == [hdr |-> to_be_bytes(c, COUNT_BYTES), body |-> "data"]

\* MaybeUninit::uninit : a slot nobody wrote; its bytes are unspecified.
Uninit == [hdr |-> <<>>, body |-> "uninit"]

\* PayloadRecycle::new_element : a block of uninitialised slots.
NewElement == [k \in Slots |-> Uninit]

\* ------------------------------------------------------- ReorderBuffer
\* ReorderBuffer::new
RbNew(size) ==
    [backlog_idxs |-> << >>,
     buffer |-> [k \in 0 .. (size - 1) |-> PayloadDefault],
     free_idxs |-> [k \in 1 .. size |-> k - 1]]

\* insert without the check of free_idxs: a full buffer grows by one entry.
RbInsertUnchecked(r, pl) ==
    LET idx == IF r.free_idxs = <<>> THEN Cardinality(DOMAIN r.backlog_idxs)
               ELSE Head(r.free_idxs)
    IN [ok |-> TRUE,
        rb |-> [backlog_idxs |-> (count(pl) :> idx) @@ r.backlog_idxs,
                buffer |-> (idx :> pl) @@ r.buffer,
                free_idxs |-> IF r.free_idxs = <<>> THEN <<>> ELSE Tail(r.free_idxs)]]

\* ReorderBuffer::insert : ok = FALSE is the bail!.
RbInsert(r, pl) ==
    IF r.free_idxs = <<>>
    THEN [ok |-> FALSE, rb |-> r]
    ELSE LET idx == Head(r.free_idxs) IN
         [ok |-> TRUE,
          rb |-> [backlog_idxs |-> (count(pl) :> idx) @@ r.backlog_idxs,
                  buffer |-> [r.buffer EXCEPT ![idx] = pl],
                  free_idxs |-> Tail(r.free_idxs)]]

\* remove that hands the payload out but keeps the entry and its index.
RbRemoveKeep(r, c) ==
    IF c \notin DOMAIN r.backlog_idxs
    THEN [some |-> FALSE, pl |-> PayloadDefault, rb |-> r]
    ELSE [some |-> TRUE, pl |-> r.buffer[r.backlog_idxs[c]], rb |-> r]

\* ReorderBuffer::remove : some = FALSE is None.
RbRemove(r, c) ==
    IF c \notin DOMAIN r.backlog_idxs
    THEN [some |-> FALSE, pl |-> PayloadDefault, rb |-> r]
    ELSE LET idx == r.backlog_idxs[c] IN
         [some |-> TRUE,
          pl |-> r.buffer[idx],
          rb |-> [backlog_idxs |->
                      [k \in (DOMAIN r.backlog_idxs) \ {c} |-> r.backlog_idxs[k]],
                  buffer |-> r.buffer,
                  free_idxs |-> Append(r.free_idxs, idx)]]

\* ------------------------------------------------------ usize bitmap
RECURSIVE Pow2(_)
Pow2(n) == IF n = 0 THEN 1 ELSE 2 * Pow2(n - 1)

\* (to_fill >> idx) & 1
BitOf(w, idx) == (w \div Pow2(idx)) % 2

\* to_fill &= !(1 << idx)
ClearBit(w, idx) == IF BitOf(w, idx) = 1 THEN w - Pow2(idx) ELSE w

\* let mut to_fill = block_buffer.0.len() - 1
ToFillInit == BLOCK_PAYLOADS - 1

\* ------------------------------------------------------ Count arithmetic
\* The number of values of a Count.
CountModulus == Pow2(COUNT_WIDTH)

\* a + b on Counts does not fit a Count.
Overflows(a, b) == a + b >= CountModulus

\* a + b on Counts as a build without overflow checks computes it.
AddCount(a, b) == (a + b) % CountModulus

\* a + b on Counts panics: the build checks for overflow and a + b overflows.
Traps(a, b) == overflow_checks /\ Overflows(a, b)

\* ----------------------------------------------------------- history
AcctInit == [past |-> 0, inwin |-> 0, dup |-> 0, future |-> 0, short |-> 0, fin |-> 0,
             trap |-> 0]

Block(base, data, how) == [base |-> base, data |-> data, how |-> how]

NoHow == [k \in Slots |-> "none"]

Record(c) == IF recording THEN Append(stream, c) ELSE stream

Emit(b) == IF recording THEN Append(emitted, b) ELSE emitted

\* -------------------------------------------------------------- Init
Init ==
    /\ impl \in {"main", "capture"}
    /\ pc = "reserve"
    /\ first_payload = (impl = "main")
    /\ oldest_count = 0
    /\ drops = 0
    /\ processed = 0
    /\ to_fill = IF impl = "main" THEN [k \in Slots |-> TRUE] ELSE ToFillInit
    /\ rb = RbNew(BACKLOG_BUFFER_PAYLOADS)
    /\ backlog = << >>
    /\ slot = Block(0, NewElement, NoHow)
    /\ iter = 0
    /\ blocks = 0
    /\ ring = <<>>
    /\ sunk = 0
    /\ last_pop = -1
    /\ acct = AcctInit
    /\ recording = FALSE
    /\ sender_base = 0
    /\ overflow_checks = FALSE
    /\ stream = <<>>
    /\ emitted = <<>>

\* ------------------------------------------------------ the sort step
\* if count < oldest_count {..} else if count >= oldest_count + len {..} else {..}
Classify(cnt, base) ==
    IF cnt < base THEN "past"
    ELSE IF cnt >= AddCount(base, BLOCK_PAYLOADS) THEN "future"
    ELSE "inwin"

\* if first_payload { oldest_count = count; first_payload = false; }
Seed(cnt) == IF first_payload THEN cnt ELSE oldest_count

\* Advance with an off-by-one block size.
AdvanceShort(base) == base + BLOCK_PAYLOADS - 1

\* oldest_count += slot.0.len() as u64
Advance(base) == AddCount(base, BLOCK_PAYLOADS)

\* The payload written to a slot nothing was received for.
DropMarker(expected) == PayloadDefault

\* History of one sorted datagram.
AcctSort(class, fresh) ==
    [acct EXCEPT !.past = IF class = "past" THEN @ + 1 ELSE @,
                 !.future = IF class = "future" THEN @ + 1 ELSE @,
                 !.inwin = IF class = "inwin" THEN @ + 1 ELSE @,
                 !.dup = IF class = "inwin" /\ ~fresh THEN @ + 1 ELSE @]

\* The for loop of the capture phase ends after BLOCK_PAYLOADS iterations.
NextPc(n) == IF n = BLOCK_PAYLOADS THEN "finalize" ELSE "capture"

\* -------------------------------------------------- the finalize phase
\* st = [to_fill, base, rb, backlog, data, how, drops, processed, fin, trap];
\* trap becomes TRUE when `idx as u64 + oldest_count` panics, which ends the loop.
RECURSIVE MainFill(_, _)
\* main.rs: for (idx, _) in to_fill.into_iter().enumerate().filter(|(_, fill)| *fill)
MainFill(st, idx) ==
    IF idx >= BLOCK_PAYLOADS THEN st
    ELSE IF ~st.to_fill[idx] THEN MainFill(st, idx + 1)
    ELSE IF Traps(idx, st.base) THEN [st EXCEPT !.trap = TRUE]
    ELSE LET expected == AddCount(idx, st.base)
             got == RbRemove(st.rb, expected)
         IN IF got.some
            THEN MainFill([st EXCEPT !.rb = got.rb,
                                     !.data[idx] = got.pl,
                                     !.how[idx] = "backlog",
                                     !.processed = @ + 1,
                                     !.fin = @ + 1], idx + 1)
            ELSE MainFill([st EXCEPT !.data[idx] = DropMarker(expected),
                                     !.how[idx] = "marker",
                                     !.drops = @ + 1,
                                     !.fin = @ + 1], idx + 1)

RECURSIVE CapFill(_, _)
\* capture.rs: for (idx, buf) in block_buffer.0.iter_mut().enumerate()
CapFill(st, idx) ==
    IF idx >= BLOCK_PAYLOADS THEN st
    ELSE IF BitOf(st.to_fill, idx) # 1 THEN CapFill(st, idx + 1)
    ELSE IF Traps(idx, st.base) THEN [st EXCEPT !.trap = TRUE]
    ELSE LET expected == AddCount(idx, st.base) IN
         IF expected \in DOMAIN st.backlog
         THEN CapFill([st EXCEPT !.backlog =
                                     [k \in (DOMAIN st.backlog) \ {expected} |-> st.backlog[k]],
                                 !.data[idx] = st.backlog[expected],
                                 !.how[idx] = "backlog",
                                 !.processed = @ + 1,
                                 !.fin = @ + 1], idx + 1)
         ELSE CapFill([st EXCEPT !.data[idx] = DropMarker(expected),
                                 !.how[idx] = "marker",
                                 !.drops = @ + 1,
                                 !.fin = @ + 1], idx + 1)

\* The state the finalize phase works on.
FillState ==
    [to_fill |-> to_fill, base |-> oldest_count, rb |-> rb, backlog |-> backlog,
     data |-> slot.data, how |-> slot.how, drops |-> drops,
     processed |-> processed, fin |-> acct.fin, trap |-> FALSE]

\* A finalize phase that forgets to count the drop markers it writes.
FinalizeNoDrops(st) ==
    LET r == IF impl = "main" THEN MainFill(st, 0) ELSE CapFill(st, 0)
    IN [r EXCEPT !.drops = st.drops]

\* The finalize phase of the assembler that runs.
Finalize(st) == IF impl = "main" THEN MainFill(st, 0) ELSE CapFill(st, 0)

\* ------------------------------------------------------------ actions
\* A push_ref loop that takes its slot without waiting for a free one.
PushRefNoWait ==
    /\ pc = "reserve"
    /\ pc' = "capture"
    /\ slot' = Block(oldest_count, NewElement, NoHow)
    /\ iter' = 0
    /\ to_fill' = IF impl = "main" THEN to_fill ELSE ToFillInit
    /\ UNCHANGED <<impl, first_payload, oldest_count, drops, processed, rb, backlog,
                   blocks, ring, sunk, last_pop, acct, recording, sender_base, overflow_checks, stream, emitted>>

\* loop { match source_buf.push_ref() { Ok(slot) => break slot, Err(_) => spin_loop() } }
PushRef ==
    /\ pc = "reserve"
    /\ Len(ring) < RING_CAPACITY
    /\ pc' = "capture"
    /\ slot' = Block(oldest_count, NewElement, NoHow)
    /\ iter' = 0
    /\ to_fill' = IF impl = "main" THEN to_fill ELSE ToFillInit
    /\ UNCHANGED <<impl, first_payload, oldest_count, drops, processed, rb, backlog,
                   blocks, ring, sunk, last_pop, acct, recording, sender_base, overflow_checks, stream, emitted>>

\* main.rs: one iteration of the capture loop with a datagram of UDP_PAYLOAD
\* bytes. The sum oldest_count + len is computed when count >= oldest_count.
MainRecv(c) ==
    /\ impl = "main"
    /\ pc = "capture"
    /\ LET pl == Wire(sender_base + c)
           cnt == count(pl)
           base == Seed(cnt)
           panics == cnt >= base /\ Traps(base, BLOCK_PAYLOADS)
           class == Classify(cnt, base)
           idx == cnt - base
           ins == RbInsert(rb, pl)
       IN /\ first_payload' = FALSE
          /\ oldest_count' = base
          /\ stream' = Record(cnt)
          /\ IF panics
             THEN \* attempt to add with overflow; unwinding drops the Ref
                  /\ pc' = "failed"
                  /\ ring' = Append(ring, [slot EXCEPT !.base = base])
                  /\ emitted' = Emit([slot EXCEPT !.base = base])
                  /\ acct' = [acct EXCEPT !.trap = 1]
                  /\ UNCHANGED <<drops, processed, rb, to_fill, slot, iter>>
             ELSE /\ drops' = IF class = "past" THEN drops + 1 ELSE drops
                  /\ processed' = IF class = "inwin" THEN processed + 1 ELSE processed
                  /\ rb' = IF class = "future" THEN ins.rb ELSE rb
                  /\ to_fill' = IF class = "inwin"
                                THEN [to_fill EXCEPT ![idx] = FALSE] ELSE to_fill
                  /\ slot' = IF class = "inwin"
                             THEN [slot EXCEPT !.data[idx] = pl, !.how[idx] = "live"]
                             ELSE slot
                  /\ acct' = AcctSort(class, class = "inwin" /\ to_fill[idx])
                  /\ IF class = "future" /\ ~ins.ok
                     THEN \* rb.insert(pl).unwrap() panics; unwinding drops the Ref
                          /\ pc' = "failed"
                          /\ ring' = Append(ring, [slot EXCEPT !.base = base])
                          /\ emitted' = Emit([slot EXCEPT !.base = base])
                          /\ iter' = iter
                     ELSE /\ pc' = NextPc(iter + 1)
                          /\ iter' = iter + 1
                          /\ UNCHANGED <<ring, emitted>>
    /\ UNCHANGED <<impl, backlog, blocks, sunk, last_pop, recording, sender_base,
                   overflow_checks>>

\* main.rs capture(): a datagram whose size is not UDP_PAYLOAD; the loop goes on.
MainRecvShort(n) ==
    /\ impl = "main"
    /\ pc = "capture"
    /\ ~SizeOk(n)
    /\ acct.short < MaxShort
    /\ acct' = [acct EXCEPT !.short = @ + 1]
    /\ UNCHANGED <<impl, pc, first_payload, oldest_count, drops, processed, to_fill, rb,
                   backlog, slot, iter, blocks, ring, sunk, last_pop, recording, sender_base, overflow_checks,
                   stream, emitted>>

\* main.rs capture(): recv_from fails with an OS error other than EAGAIN;
\* main returns the error and the Ref is dropped on the way out.
MainRecvFatal ==
    /\ impl = "main"
    /\ pc = "capture"
    /\ pc' = "failed"
    /\ ring' = Append(ring, [slot EXCEPT !.base = oldest_count])
    /\ emitted' = Emit([slot EXCEPT !.base = oldest_count])
    /\ UNCHANGED <<impl, first_payload, oldest_count, drops, processed, to_fill, rb,
                   backlog, slot, iter, blocks, sunk, last_pop, acct, recording, sender_base, overflow_checks, stream>>

\* main.rs: the finalize phase, the reset of to_fill, the advance of
\* oldest_count and the release of the slot at the end of the iteration. A
\* panic on an overflowing sum, in the loop or at the advance, unwinds out of
\* main and drops the Ref with what has been written so far.
MainFinalize ==
    /\ impl = "main"
    /\ pc = "finalize"
    /\ LET st == Finalize(FillState)
           panics == st.trap \/ Traps(oldest_count, BLOCK_PAYLOADS)
           done == Block(oldest_count, st.data, st.how)
       IN /\ rb' = st.rb
          /\ drops' = st.drops
          /\ processed' = st.processed
          /\ acct' = [acct EXCEPT !.fin = st.fin, !.trap = IF panics THEN 1 ELSE @]
          /\ slot' = done
          /\ ring' = Append(ring, done)
          /\ emitted' = Emit(done)
          /\ to_fill' = IF st.trap THEN to_fill ELSE [k \in Slots |-> TRUE]
          /\ oldest_count' = IF panics THEN oldest_count ELSE Advance(oldest_count)
          /\ blocks' = IF panics THEN blocks ELSE blocks + 1
          /\ pc' = IF panics THEN "failed"
                   ELSE IF blocks + 1 = BLOCKS_TO_SORT THEN "join" ELSE "reserve"
    /\ UNCHANGED <<impl, first_payload, backlog, iter, sunk, last_pop, recording,
                   sender_base, overflow_checks, stream>>

\* capture.rs: one iteration of the capture loop with a datagram of the right
\* size. A panic on the overflowing sum ends the call; nothing is released.
CapRecv(c) ==
    /\ impl = "capture"
    /\ pc = "capture"
    /\ LET pl == Wire(sender_base + c)
           cnt == count(pl)
           base == Seed(cnt)
           panics == cnt >= base /\ Traps(base, BLOCK_PAYLOADS)
           class == Classify(cnt, base)
           idx == cnt - base
       IN /\ first_payload' = FALSE
          /\ oldest_count' = base
          /\ stream' = Record(cnt)
          /\ IF panics
             THEN /\ pc' = "failed"
                  /\ acct' = [acct EXCEPT !.trap = 1]
                  /\ UNCHANGED <<drops, processed, backlog, to_fill, slot, iter>>
             ELSE /\ drops' = IF class = "past" THEN drops + 1 ELSE drops
                  /\ processed' = IF class = "inwin" THEN processed + 1 ELSE processed
                  /\ backlog' = IF class = "future" THEN (cnt :> pl) @@ backlog ELSE backlog
                  /\ to_fill' = IF class = "inwin" THEN ClearBit(to_fill, idx) ELSE to_fill
                  /\ slot' = IF class = "inwin"
                             THEN [slot EXCEPT !.data[idx] = pl, !.how[idx] = "live"]
                             ELSE slot
                  /\ acct' = AcctSort(class, class = "inwin" /\ slot.how[idx] = "none")
                  /\ pc' = NextPc(iter + 1)
                  /\ iter' = iter + 1
    /\ UNCHANGED <<impl, rb, blocks, ring, sunk, last_pop, recording, sender_base,
                   overflow_checks, emitted>>

\* capture.rs Capture::capture: n != len gives Err(SizeMismatch), which
\* capture_sorted_block hands to its caller with `?`.
CapRecvShort(n) ==
    /\ impl = "capture"
    /\ pc = "capture"
    /\ ~SizeOk(n)
    /\ acct.short < MaxShort
    /\ acct' = [acct EXCEPT !.short = @ + 1]
    /\ pc' = "failed"
    /\ UNCHANGED <<impl, first_payload, oldest_count, drops, processed, to_fill, rb,
                   backlog, slot, iter, blocks, ring, sunk, last_pop, recording, sender_base, overflow_checks,
                   stream, emitted>>

\* capture.rs Capture::capture: recv fails; the error is handed to the caller.
CapRecvFatal ==
    /\ impl = "capture"
    /\ pc = "capture"
    /\ pc' = "failed"
    /\ UNCHANGED <<impl, first_payload, oldest_count, drops, processed, to_fill, rb,
                   backlog, slot, iter, blocks, ring, sunk, last_pop, acct, recording, sender_base, overflow_checks,
                   stream, emitted>>

\* capture.rs: the finalize phase and the advance of oldest_count; the
\* caller then releases the block. A panic on an overflowing sum ends the
\* call; nothing is released.
CapFinalize ==
    /\ impl = "capture"
    /\ pc = "finalize"
    /\ LET st == Finalize(FillState)
           panics == st.trap \/ Traps(oldest_count, BLOCK_PAYLOADS)
           done == Block(oldest_count, st.data, st.how)
       IN /\ backlog' = st.backlog
          /\ drops' = st.drops
          /\ processed' = st.processed
          /\ acct' = [acct EXCEPT !.fin = st.fin, !.trap = IF panics THEN 1 ELSE @]
          /\ slot' = done
          /\ ring' = IF panics THEN ring ELSE Append(ring, done)
          /\ emitted' = IF panics THEN emitted ELSE Emit(done)
          /\ oldest_count' = IF panics THEN oldest_count ELSE Advance(oldest_count)
          /\ blocks' = IF panics THEN blocks ELSE blocks + 1
          /\ pc' = IF panics THEN "failed"
                   ELSE IF blocks + 1 = BLOCKS_TO_SORT THEN "join" ELSE "reserve"
    /\ UNCHANGED <<impl, first_payload, to_fill, rb, iter, sunk, last_pop, recording,
                   sender_base, overflow_checks, stream>>

\* The sink thread: if sink_buf.pop().is_some() { count += 1; ... }
Pop ==
    /\ sunk < BLOCKS_TO_SORT
    /\ ring # <<>>
    /\ sunk' = sunk + 1
    /\ last_pop' = Head(ring).base
    /\ ring' = Tail(ring)
    /\ UNCHANGED <<impl, pc, first_payload, oldest_count, drops, processed, to_fill, rb,
                   backlog, slot, iter, blocks, acct, recording, sender_base, overflow_checks, stream, emitted>>

\* A driver that prints the summary without joining the sink thread.
JoinNoWait ==
    /\ pc = "join"
    /\ pc' = "done"
    /\ UNCHANGED <<impl, first_payload, oldest_count, drops, processed, to_fill, rb,
                   backlog, slot, iter, blocks, ring, sunk, last_pop, acct, recording, sender_base, overflow_checks,
                   stream, emitted>>

\* handle.join().unwrap(), then the summary is printed.
Join ==
    /\ pc = "join"
    /\ sunk = BLOCKS_TO_SORT
    /\ pc' = "done"
    /\ UNCHANGED <<impl, first_payload, oldest_count, drops, processed, to_fill, rb,
                   backlog, slot, iter, blocks, ring, sunk, last_pop, acct, recording, sender_base, overflow_checks,
                   stream, emitted>>

Next ==
    \/ PushRef
    \/ \E c \in Counts : MainRecv(c)
    \/ \E n \in Sizes : MainRecvShort(n)
    \/ MainRecvFatal
    \/ MainFinalize
    \/ \E c \in Counts : CapRecv(c)
    \/ \E n \in Sizes : CapRecvShort(n)
    \/ CapRecvFatal
    \/ CapFinalize
    \/ Pop
    \/ Join

Spec == Init /\ [][Next]_vars

\* The same program with the history of datagrams and blocks kept.
InitRec ==
    /\ impl \in {"main", "capture"}
    /\ pc = "reserve"
    /\ first_payload = (impl = "main")
    /\ oldest_count = 0
    /\ drops = 0
    /\ processed = 0
    /\ to_fill = IF impl = "main" THEN [k \in Slots |-> TRUE] ELSE ToFillInit
    /\ rb = RbNew(BACKLOG_BUFFER_PAYLOADS)
    /\ backlog = << >>
    /\ slot = Block(0, NewElement, NoHow)
    /\ iter = 0
    /\ blocks = 0
    /\ ring = <<>>
    /\ sunk = 0
    /\ last_pop = -1
    /\ acct = AcctInit
    /\ recording = TRUE
    /\ sender_base = 0
    /\ overflow_checks = FALSE
    /\ stream = <<>>
    /\ emitted = <<>>

SpecRec == InitRec /\ [][Next]_vars

\* The same program fed by a sender whose counter is close to the largest
\* Count, in a build with and in a build without overflow checks.
InitWrap ==
    /\ impl \in {"main", "capture"}
    /\ pc = "reserve"
    /\ first_payload = (impl = "main")
    /\ oldest_count = 0
    /\ drops = 0
    /\ processed = 0
    /\ to_fill = IF impl = "main" THEN [k \in Slots |-> TRUE] ELSE ToFillInit
    /\ rb = RbNew(BACKLOG_BUFFER_PAYLOADS)
    /\ backlog = << >>
    /\ slot = Block(0, NewElement, NoHow)
    /\ iter = 0
    /\ blocks = 0
    /\ ring = <<>>
    /\ sunk = 0
    /\ last_pop = -1
    /\ acct = AcctInit
    /\ recording = FALSE
    /\ sender_base = CountModulus - 1 - MaxCount
    /\ overflow_checks \in BOOLEAN
    /\ stream = <<>>
    /\ emitted = <<>>

SpecWrap == InitWrap /\ [][Next]_vars

\* The steps the capture thread takes on its own, without the network.
CaptureThread == PushRef \/ MainFinalize \/ CapFinalize \/ Join

\* The same program with both threads scheduled fairly: the capture thread
\* runs on its own core and the sink thread on another (core_affinity,
\* main.rs:144 and 173), each in a spin loop, so a step of a thread that
\* stays possible is eventually taken. Whether datagrams keep arriving is
\* up to the network and is not part of the fairness.
Fairness == WF_vars(CaptureThread) /\ WF_vars(Pop)

SpecFair == Init /\ [][Next]_vars /\ Fairness

\* ===================================================================
\* Properties
\* ===================================================================
\* The capture thread stands between two blocks.
AtBoundary == pc \in {"reserve", "join", "done"} /\ blocks > 0

\* The drop marker the specification describes for count c.
SpecMarker(c) == [hdr |-> to_be_bytes(c, COUNT_BYTES), body |-> "zero"]

\* The payload p was written and decodes to count c.
Decodes(p, c) == p # Uninit /\ count(p) = c

SeqSet(s) == {s[j] : j \in 1 .. Len(s)}

Abs(n) == IF n < 0 THEN -n ELSE n

\* C1: in the block the assembler has just emitted, the payload of every
\* slot i decodes via count() to block_base + i, whichever way it was filled.
C1_SlotCounts ==
    AtBoundary => \A k \in Slots : Decodes(slot.data[k], slot.base + k)

\* s is a permutation of the consecutive counts from its first datagram's
\* count on in which no datagram is displaced by more than d positions.
BoundedPermutation(s, d) ==
    /\ s # <<>>
    /\ SeqSet(s) = s[1] .. (s[1] + Len(s) - 1)
    /\ \A j \in 1 .. Len(s) : Abs(s[j] - (s[1] + j - 1)) <= d

\* C2 (as it applies to main.rs): after a duplicate-free, loss-free stream
\* that is a permutation of consecutive counts with no datagram displaced by
\* more than K positions, every emitted block holds live payloads only and
\* drops is 0.
C2_BoundedReorderLossless ==
    (/\ recording
     /\ impl = "main"
     /\ AtBoundary
     /\ acct.short = 0
     /\ Len(stream) = blocks * BLOCK_PAYLOADS
     /\ BoundedPermutation(stream, BACKLOG_BUFFER_PAYLOADS))
    => /\ drops = 0
       /\ \A j \in 1 .. Len(emitted) : \A k \in Slots : emitted[j].how[k] = "live"

\* The b-th group of BLOCK_PAYLOADS datagrams of s is a permutation of the
\* counts first + b*B .. first + (b+1)*B - 1.
GroupIsBlock(s, first, b) ==
    {s[b * BLOCK_PAYLOADS + k + 1] : k \in Slots}
        = (first + b * BLOCK_PAYLOADS) .. (first + (b + 1) * BLOCK_PAYLOADS - 1)

\* C3: when the datagrams captured for each block are a permutation of that
\* block's counts, n blocks are emitted after n*B datagrams, block k holds the
\* live payloads of counts first + k*B .. in order, drops = 0 and
\* processed = n*B.
C3_InOrderBlocks ==
    (/\ recording
     /\ AtBoundary
     /\ acct.short = 0
     /\ Len(stream) = blocks * BLOCK_PAYLOADS
     /\ \A b \in 0 .. (blocks - 1) : GroupIsBlock(stream, stream[1], b))
    => /\ Len(emitted) = blocks
       /\ \A b \in 0 .. (blocks - 1) : \A k \in Slots :
              /\ emitted[b + 1].data[k] = Wire(stream[1] + b * BLOCK_PAYLOADS + k)
              /\ emitted[b + 1].how[k] = "live"
       /\ drops = 0
       /\ processed = blocks * BLOCK_PAYLOADS

\* C4: a slot of the emitted block that the finalize phase filled without a
\* backlog entry holds the drop marker of block_base + idx: that count in
\* big-endian in bytes [0..8), zeros after, so count() gives it back.
C4_DropMarkerRoundTrip ==
    AtBoundary =>
        \A k \in Slots :
            slot.how[k] = "marker" =>
                /\ slot.data[k] = SpecMarker(slot.base + k)
                /\ count(slot.data[k]) = slot.base + k

\* C5, as steps: once seeded, block_base changes only when a block completes,
\* and then by exactly B; the sink pops blocks whose block_base goes up by B.
C5_Step ==
    /\ (~first_payload /\ oldest_count' # oldest_count)
           => (pc = "finalize" /\ oldest_count' = oldest_count + BLOCK_PAYLOADS)
    /\ blocks' # blocks => oldest_count' = oldest_count + BLOCK_PAYLOADS
    /\ (last_pop' # last_pop /\ last_pop # -1) => last_pop' = last_pop + BLOCK_PAYLOADS

\* C5, of the ring: blocks wait in the ring in strictly increasing block_base
\* order, each B above the one before, all above the one popped last.
C5_RingOrdered ==
    /\ \A j \in 1 .. (Len(ring) - 1) : ring[j + 1].base = ring[j].base + BLOCK_PAYLOADS
    /\ (ring # <<>> /\ last_pop # -1) => ring[1].base = last_pop + BLOCK_PAYLOADS

\* C5: block_base is constant while a block is assembled after seeding,
\* advances by exactly B when a block completes, and blocks are produced and
\* popped in strictly increasing block_base order.
C5_BlockBaseMonotonic == [][C5_Step]_vars /\ []C5_RingOrdered

\* The third block is under assembly after a seed above zero, the second
\* waits in the ring and the first has been popped.
C5_Witness ==
    /\ blocks = 2
    /\ sunk = 1
    /\ last_pop > 0
    /\ Len(ring) = 1
    /\ ring[1].base = last_pop + BLOCK_PAYLOADS
    /\ oldest_count = last_pop + 2 * BLOCK_PAYLOADS
    /\ pc = "capture"
    /\ iter > 0

\* C6 as stated, of main.rs: at every block boundary drops + processed is
\* k*B minus the number of wrong-size datagrams.
C6_ConservationAsStated ==
    (AtBoundary /\ impl = "main")
        => drops + processed = blocks * BLOCK_PAYLOADS - acct.short

\* C6 amended: at every block boundary of main.rs drops + processed is k*B
\* plus the past datagrams plus the in-window datagrams whose slot was already
\* written; in capture.rs it is the past datagrams plus the in-window
\* datagrams plus the slots the finalize phase visited. Wrong-size and
\* future-dated datagrams add nothing.
C6_Conservation ==
    AtBoundary =>
        /\ drops + processed = acct.past + acct.inwin + acct.fin
        /\ impl = "main" =>
               drops + processed = blocks * BLOCK_PAYLOADS + acct.past + acct.dup

\* main.rs at a block boundary after a past, a duplicate, a future-dated and
\* a wrong-size datagram, with a drop marker written by finalize.
C6_Witness ==
    /\ AtBoundary
    /\ impl = "main"
    /\ acct.past > 0
    /\ acct.dup > 0
    /\ acct.future > 0
    /\ acct.short > 0
    /\ drops > acct.past

\* C7, of the states: the ReorderBuffer never stores more than K payloads.
C7_Bounded ==
    impl = "main" =>
        /\ Cardinality(DOMAIN rb.backlog_idxs) <= BACKLOG_BUFFER_PAYLOADS
        /\ Cardinality(DOMAIN rb.backlog_idxs) + Len(rb.free_idxs) <= BACKLOG_BUFFER_PAYLOADS
        /\ DOMAIN rb.buffer = 0 .. (BACKLOG_BUFFER_PAYLOADS - 1)

\* C7, of the steps: a future-dated datagram that arrives while K payloads
\* are stored is not stored; the block loop fails.
C7_Step ==
    (/\ impl = "main"
     /\ acct'.future = acct.future + 1
     /\ Cardinality(DOMAIN rb.backlog_idxs) = BACKLOG_BUFFER_PAYLOADS)
    => (pc' = "failed" /\ rb' = rb)

\* C7: in main.rs the ReorderBuffer never holds more than K payloads, and an
\* insert that would take it past K fails fast instead of storing.
C7_ReorderBufferBounded == []C7_Bounded /\ [][C7_Step]_vars

\* The block loop failed on the insert of the (K+1)-th future-dated datagram
\* with K payloads stored.
C7_Witness ==
    /\ impl = "main"
    /\ pc = "failed"
    /\ Cardinality(DOMAIN rb.backlog_idxs) = BACKLOG_BUFFER_PAYLOADS
    /\ acct.future = BACKLOG_BUFFER_PAYLOADS + 1

\* C8: in capture.rs the backlog never holds more than K entries.
C8_BacklogBounded ==
    impl = "capture" => Cardinality(DOMAIN backlog) <= BACKLOG_BUFFER_PAYLOADS

\* C9: a wrong-size datagram is skipped: the counters, block_base, the
\* backlog, the block, the fill map and the iteration count stay as they are
\* and the capture loop goes on.
C9_Step ==
    acct'.short # acct.short =>
        /\ pc' = pc
        /\ UNCHANGED <<drops, processed, oldest_count, first_payload, rb, backlog,
                       slot, to_fill, iter>>

\* C9: every step that takes a wrong-size datagram skips it and the
\* assembly goes on.
C9_ShortSkipped == [][C9_Step]_vars

\* s is in order and loss-free but for one late copy, at position j, of a
\* count whose block had been emitted when the copy arrived.
LateCopyAt(s, j) ==
    LET t == SubSeq(s, 1, j - 1) \o SubSeq(s, j + 1, Len(s)) IN
    /\ \A m \in 1 .. Len(t) : t[m] = t[1] + m - 1
    /\ s[j] >= t[1]
    /\ s[j] < t[1] + ((j - 1) \div BLOCK_PAYLOADS) * BLOCK_PAYLOADS

\* C10 (as it applies to main.rs): after an in-order, loss-free stream with
\* one late copy of an already emitted count, drops = 1 and processed is the
\* number of distinct counts.
C10_LateCopyCostsOneDrop ==
    (/\ recording
     /\ impl = "main"
     /\ acct.short = 0
     /\ pc # "failed"
     /\ Len(stream) > 1
     /\ (Len(stream) - 1) % BLOCK_PAYLOADS = 0
     /\ \E j \in 2 .. Len(stream) : LateCopyAt(stream, j))
    => (drops = 1 /\ processed = Len(stream) - 1)

\* C11: running the finalize phase a second time on the block it has just
\* finalized, before block_base advances, changes nothing: no slot, no
\* backlog entry, neither drops nor processed.
C11_FinalizeIdempotent ==
    pc = "finalize" =>
        LET once == Finalize(FillState) IN Finalize(once) = once

\* C12: the first correctly sized datagram seeds block_base with its own
\* count, whatever the count: it is written live to slot 0 of the first
\* block, the flag is false afterwards, and block_base is from then on that
\* count plus B per completed block (never seeded again).
C12_FirstDatagramSeeds ==
    (recording /\ stream # <<>>) =>
        /\ ~first_payload
        /\ oldest_count = stream[1] + blocks * BLOCK_PAYLOADS
        /\ blocks = 0 => (slot.how[0] = "live" /\ slot.data[0] = Wire(stream[1]))

\* The blocks the producer has released so far: the completed ones and, in
\* main.rs, the one the Ref held when the block loop failed.
Released == blocks + (IF impl = "main" /\ pc = "failed" THEN 1 ELSE 0)

\* The producer holds a Ref to a slot of the ring.
Assembling == IF pc \in {"capture", "finalize"} THEN 1 ELSE 0

\* C13, of the states: the blocks waiting in the ring plus the one under
\* assembly never exceed R, and the sink has popped exactly the released
\* blocks that no longer wait (never one that was not released).
C13_RingState ==
    /\ Len(ring) + Assembling <= RING_CAPACITY
    /\ sunk + Len(ring) = Released
    /\ sunk <= Released

\* C13, of the steps: the sink takes the block released first; a release
\* appends the block under assembly behind the waiting ones; the producer
\* obtains a slot only while fewer than R blocks wait.
C13_Step ==
    /\ sunk' # sunk =>
           /\ ring # <<>>
           /\ sunk' = sunk + 1
           /\ ring' = Tail(ring)
           /\ last_pop' = Head(ring).base
    /\ (sunk' = sunk /\ ring' # ring) =>
           /\ Assembling = 1
           /\ Len(ring') = Len(ring) + 1
           /\ SubSeq(ring', 1, Len(ring)) = ring
           /\ ring'[Len(ring')].data = slot'.data
    /\ (Assembling = 0 /\ Assembling' = 1) =>
           (Len(ring) < RING_CAPACITY /\ ring' = ring /\ slot'.data = NewElement)

C14_Safe ==
    /\ pc \in {"join", "done"} => (blocks = BLOCKS_TO_SORT /\ Released = BLOCKS_TO_SORT)
    /\ pc = "done" => (sunk = BLOCKS_TO_SORT /\ ring = <<>>)
    /\ blocks <= BLOCKS_TO_SORT
    /\ sunk <= BLOCKS_TO_SORT

\* The capture loop waits for a datagram that never comes.
Starved == <>[](pc = "capture")

\* C14: with both threads scheduled fairly and datagrams that keep
\* arriving, a run in which no receive fails and the backlog does not
\* overflow reaches the summary: exactly BLOCKS_TO_SORT blocks released,
\* exactly BLOCKS_TO_SORT popped, the sink finished before the summary; the
\* threads never wait for each other forever.
C14_DriverTerminates == []C14_Safe /\ (Starved \/ <>(pc \in {"done", "failed"}))

\* C14 witness: main.rs has printed its summary after the sink popped
\* every block, with drops and backlog recoveries on the way.
C14_Witness ==
    /\ impl = "main"
    /\ pc = "done"
    /\ sunk = BLOCKS_TO_SORT
    /\ blocks = BLOCKS_TO_SORT
    /\ drops > 0
    /\ acct.future > 0

\* C15 (as it applies to main.rs): at every block boundary every count
\* stored in the ReorderBuffer is at or above block_base, so an entry stored
\* as future is gone once the block whose window holds its count has been
\* finalized.
C15_NoStaleEntries ==
    (impl = "main" /\ AtBoundary) =>
        \A c \in DOMAIN rb.backlog_idxs : c >= oldest_count

\* C16: in capture.rs to_fill starts a block with the bits of all B slots
\* set; when the capture loop ends, bit idx is set exactly when no in-window
\* datagram was written to slot idx; and when the call has returned every
\* slot of the block has been written, live or by finalize.
C16_BitmapCoversBlock ==
    impl = "capture" =>
        /\ (pc = "capture" /\ iter = 0) => \A idx \in Slots : BitOf(to_fill, idx) = 1
        /\ pc = "finalize" =>
               \A idx \in Slots : (BitOf(to_fill, idx) = 1) <=> (slot.how[idx] = "none")
        /\ AtBoundary => \A idx \in Slots : slot.how[idx] # "none"

\* The payload the ReorderBuffer holds for count c.
Stored(r, c) == r.buffer[r.backlog_idxs[c]]

\* The step is the finalize phase of main.rs.
FinalizeStep == impl = "main" /\ pc = "finalize" /\ blocks' = blocks + 1

\* The slots the finalize phase of main.rs fills, split by whether the
\* ReorderBuffer holds their count.
Recovered == {idx \in Slots : to_fill[idx] /\ (idx + oldest_count) \in DOMAIN rb.backlog_idxs}

Missing == {idx \in Slots : to_fill[idx] /\ (idx + oldest_count) \notin DOMAIN rb.backlog_idxs}

\* C17, of the states: what is stored for count c is a datagram of count c.
C17_Keyed ==
    impl = "main" => \A c \in DOMAIN rb.backlog_idxs : Stored(rb, c) = Wire(c)

\* C17, of the steps: an entry for a count beyond the window stays stored
\* with the same payload over every step, the finalize of earlier blocks
\* included; the finalize of the block whose window holds c, with slot
\* c - block_base unfilled, moves exactly the stored payload into that slot
\* and removes the entry; processed goes up by one per recovered slot and
\* drops by one per slot with nothing stored, none for a recovered slot.
C17_Step ==
    impl = "main" =>
        /\ \A c \in DOMAIN rb.backlog_idxs :
               /\ c >= oldest_count + BLOCK_PAYLOADS =>
                      (c \in DOMAIN rb'.backlog_idxs /\ Stored(rb', c) = Stored(rb, c))
               /\ (FinalizeStep /\ (c - oldest_count) \in Recovered) =>
                      /\ slot'.data[c - oldest_count] = Stored(rb, c)
                      /\ slot'.how[c - oldest_count] = "backlog"
                      /\ c \notin DOMAIN rb'.backlog_idxs
        /\ FinalizeStep =>
               /\ processed' = processed + Cardinality(Recovered)
               /\ drops' = drops + Cardinality(Missing)
               /\ \A idx \in Missing : slot'.how[idx] = "marker"

Holders(r, i) ==
    Cardinality({j \in 1 .. Len(r.free_idxs) : r.free_idxs[j] = i})
        + Cardinality({c \in DOMAIN r.backlog_idxs : r.backlog_idxs[c] = i})

\* C18: every index of the ReorderBuffer's buffer is either free, once, or
\* the index of exactly one stored count, so the stored counts and the free
\* indexes add up to K and no slot is lost.
C18_SlotAccounting ==
    impl = "main" =>
        /\ \A i \in 0 .. (BACKLOG_BUFFER_PAYLOADS - 1) : Holders(rb, i) = 1
        /\ Cardinality(DOMAIN rb.backlog_idxs) + Len(rb.free_idxs) = BACKLOG_BUFFER_PAYLOADS

\* C19 (of main.rs): every block released to the ring, and so every block
\* the sink can pop, has had all B of its slots written during its assembly,
\* also when the block loop fails in the middle of a block.
C19_FullWriteBeforePublish ==
    impl = "main" =>
        \A j \in 1 .. Len(ring) : \A k \in Slots : ring[j].how[k] # "none"

\* C20, of the states: no sum of the window arithmetic has trapped.
C20_NoTrap == acct.trap = 0

\* C20, of the steps, with the sums taken in unbounded integers: a datagram
\* is stored as future only when its count is at or beyond block_base + B, a
\* datagram written to slot k has count block_base + k, and the advance adds
\* exactly B to block_base.
C20_Step ==
    /\ \A c \in (DOMAIN rb'.backlog_idxs) \ (DOMAIN rb.backlog_idxs) :
           c >= oldest_count' + BLOCK_PAYLOADS
    /\ \A c \in (DOMAIN backlog') \ (DOMAIN backlog) :
           c >= oldest_count' + BLOCK_PAYLOADS
    /\ \A k \in Slots :
           (iter' = iter + 1 /\ slot'.how[k] = "live" /\ slot'.data[k] # slot.data[k])
               => count(slot'.data[k]) = oldest_count' + k
    /\ blocks' = blocks + 1 => oldest_count' = oldest_count + BLOCK_PAYLOADS

\* C20: the window arithmetic is exact for every Count and neither wraps
\* nor traps, also when block_base was seeded within B of the largest Count.
C20_WindowArithmeticExact == []C20_NoTrap /\ [][C20_Step]_vars

====
